---- MODULE Spec2Model ----
(***************************************************************************)
(* A model of bmaptools/TransRead.py: the TransRead stream object, its     *)
(* construction (local open, generic URL open, SSH open, decompressor      *)
(* pipeline), the feeder thread, read/seek/tell and the teardown           *)
(* (__del__ / close).                                                      *)
(*                                                                         *)
(* Byte contents are modelled by their offsets in the stream the caller    *)
(* reads: a buffer is a pair <<start offset, length>>.                     *)
(***************************************************************************)
EXTENDS Integers, Sequences, FiniteSets, TLC

\* ------------------------------------------------------------------ bounds

\* Number of bytes the deepest source holds.
DataLen == 3
\* Largest offset argument passed to seek().
MaxSeek == 4
\* Largest explicit size argument passed to read().
MaxRead == 2
\* Stand-in for the 1024 * 1024 bytes chunk of _fake_seek_forward and of
\* _read_thread, scaled to the data length so that the loops iterate.
ChunkSize == 2
\* Number of explicit close() calls made on one stream.
MaxCloses == 2
\* Cap of the position counter: read() is not called beyond it.  (Only a
\* natively seekable file, which can be rewound and read again, gets there.)
MaxPos == 5

\* ------------------------------------------------------- program constants

SEEK_SET == 0
SEEK_CUR == 1
SEEK_END == 2

VARIABLES
    inp,              \* the constructor's input and its environment
    pc,               \* position of the foreground thread
    error,            \* the exception the constructor raised, if any
    events,           \* opens, spawns and warnings of the constructor, in order
    f_objs,           \* self._f_objs
    opened,           \* every byte source opened so far
    closed,           \* the byte sources closed so far
    child_processes,  \* self._child_processes
    proc,             \* state of every process
    rthread,          \* self._rthread and the feeder's position
    fstate,           \* feeder's data: bytes taken upstream, held, written
    stdin_closed,     \* the decompressor's stdin was closed by the feeder
    done,             \* self._done
    force_fake_seek,  \* self._force_fake_seek
    pos,              \* self._pos
    is_url,           \* self.is_url
    off,              \* bytes the active element has handed out / its position
    sk,               \* the locals of a running _fake_seek_forward
    last,             \* the last public operation and its outcome
    ref,              \* reference stream: the same calls, seeks done by reads
    closes,           \* number of close() calls that have ended
    snap,             \* the stream state the first close() call left
    kill_failed,      \* the child whose kill() raised in the last teardown
    out,              \* the bytes read() returned, in order (feeder-fed streams)
    delivered,        \* number of bytes read() has returned
    name,             \* self.name, as its characters (format resolution)
    fmt,              \* the locals of the format resolution and its result
    kills             \* number of kill() calls each process has been sent

vars == <<inp, pc, error, events, f_objs, opened, closed, child_processes, proc,
          rthread, fstate, stdin_closed, done, force_fake_seek, pos, is_url,
          off, sk, last, ref, closes, snap, kill_failed, out, delivered,
          name, fmt, kills>>

\* ------------------------------------------------------------- vocabulary

Programs == {"ssh", "sshpass", "gzip", "pigz", "tar"}
Processes == {"probe1", "probe2", "fetch", "decoder"}
Elements == {"file", "resp1", "resp2", "sshout", "decout"}
Exts == {"none", ".gz", ".tar.gz"}
ExitCodes == {0, 5, 255}

Min(a, b) == IF a < b THEN a ELSE b
Max(a, b) == IF a > b THEN a ELSE b
Range(s) == {s[i] : i \in 1..Len(s)}
LastOf(s) == s[Len(s)]

NoError == [kind |-> "none", msg |-> "", prog |-> ""]
MkError(k, m, p) == [kind |-> k, msg |-> m, prog |-> p]
NoOp == [op |-> "none", err |-> "none", buf |-> <<0, 0>>, target |-> 0,
         from |-> 0, left |-> 0, after |-> -1, size |-> 0, known |-> TRUE,
         at |-> 0]
NoSeek == [new_pos |-> 0, to_read |-> 0, cur_pos |-> 0, known |-> TRUE,
           at |-> 0]

\* The bytes of the buffer <<start offset, length>>, as their offsets.
Bytes(buf) == [i \in 1..buf[2] |-> buf[1] + i - 1]

\* ---------------------------------------------------------------- inputs

\* The constructor's argument and the environment it runs in: the outcome of
\* the local open, the URL's scheme and password, the archive extension the
\* name resolves to, the programs installed, and the attributes the URL
\* response object has.  Fields the run never looks at are pinned (gzip when
\* pigz is installed in its place), and a response without fileno is taken
\* with every program installed and a name that resolves to '.gz'.
Inputs ==
    {i \in [local : {"ok", "enoent", "eacces"}, scheme : {"none", "ssh", "http"},
            password : BOOLEAN, ext : Exts, avail : SUBSET Programs,
            fileno : BOOLEAN, seekattr : BOOLEAN] :
        /\ (i.scheme = "none") <=> (i.local # "enoent")
        /\ i.password => i.scheme = "ssh"
        /\ i.scheme # "ssh" => "ssh" \in i.avail
        /\ ~i.password => "sshpass" \in i.avail
        /\ i.ext = "none" => {"gzip", "pigz", "tar"} \subseteq i.avail
        /\ i.ext = ".gz" => "tar" \in i.avail
        /\ "pigz" \in i.avail => "gzip" \in i.avail
        /\ ~i.fileno => i.avail = Programs /\ i.ext = ".gz"
        /\ i.local = "eacces" => i.ext = "none"
        /\ (i.scheme # "http" \/ i.ext = "none") => i.fileno
        /\ (i.scheme # "http" \/ i.ext # "none") => i.seekattr}

\* BmapHelpers.program_is_available()
ProgramIsAvailable(p) == p \in inp.avail

\* DECOMPRESSER_EXTENSIONS[...]['program'] of the key the extension ends with
DecompressorProgram(ext) == "gzip"

\* NESTED_DECOMPRESSER_EXTENSIONS[...]['program'], "none" when not nested
ArchiverProgram(ext) == IF ext = ".tar.gz" THEN "tar" ELSE "none"

\* The decompressor after the pigz substitution
Decompressor(ext) ==
    IF DecompressorProgram(ext) = "gzip" /\ ProgramIsAvailable("pigz")
    THEN "pigz" ELSE DecompressorProgram(ext)

\* _decode_sshpass_exit_code()
DecodeSshpassExitCode(code) ==
    CASE code = 1 -> "invalid command line argument"
      [] code = 2 -> "conflicting arguments given"
      [] code = 3 -> "general run-time error"
      [] code = 4 -> "unrecognized response from ssh (parse error)"
      [] code = 5 -> "invalid/incorrect password"
      [] code = 6 -> "host public key is unknown"
      [] code = 255 -> "ssh error"
      [] OTHER -> "unknown"

\* popen_args[0]: the program every SSH invocation starts
SshCommand == IF inp.password THEN "sshpass" ELSE "ssh"

\* The program the "make sure sshpass is installed" test asks about
PasswordHelperChecked == "ssh"

\* hasattr(file_obj, 'fileno')
HasFileno(el) == IF el \in {"resp1", "resp2"} THEN inp.fileno ELSE TRUE

\* hasattr(file_obj, 'seek') / hasattr(file_obj, 'tell')
HasSeek(el) == IF el \in {"resp1", "resp2"} THEN inp.seekattr ELSE TRUE

\* The format resolution has not run: self.compression_type = 'none',
\* archiver = None.
NoExtension == <<>>
NoFormat == [step |-> "start", archive_extension |-> NoExtension,
             compression_type |-> "none", decompressor |-> "none",
             archiver |-> "none", args |-> ""]

\* ------------------------------------------------------------------ Init

NoSnap == [taken |-> FALSE, same |-> TRUE, done |-> FALSE, closed |-> {},
           proc |-> [p \in Processes |-> "none"], rthread |-> "none"]

Init ==
    /\ inp \in Inputs
    /\ pc = "start"
    /\ error = NoError
    /\ events = <<>>
    /\ f_objs = <<>>
    /\ opened = {}
    /\ closed = {}
    /\ child_processes = <<>>
    /\ proc = [p \in Processes |-> "none"]
    /\ rthread = "none"
    /\ fstate = [up |-> 0, buf |-> <<0, 0>>, fed |-> <<>>]
    /\ stdin_closed = FALSE
    /\ done = FALSE
    /\ force_fake_seek = FALSE
    /\ pos = 0
    /\ is_url = FALSE
    /\ off = 0
    /\ sk = NoSeek
    /\ last = NoOp
    /\ ref = [pos |-> 0, buf |-> <<0, 0>>]
    /\ closes = 0
    /\ snap = NoSnap
    /\ kill_failed = "none"
    /\ out = <<>>
    /\ delivered = 0
    /\ name = <<>>
    /\ fmt = NoFormat
    /\ kills = [p \in Processes |-> 0]

\* ----------------------------------------------------------- construction

\* The variables the constructor never touches.
ctorFrame == <<inp, closed, fstate, stdin_closed, done, pos, off, sk, last, ref,
               closes, snap, kill_failed, out, delivered, name, fmt,
               kills>>

\* An exception leaves __init__: it reaches the caller.
Raise(e) == pc' = "failed" /\ error' = e

\* A variant of the test below that takes every failure of the local open
\* for a URL.
IsUrlFallbackAnyError(err) == TRUE

\* __init__: "if err.errno == errno.ENOENT"
IsUrlFallback(err) == err = "enoent"

\* __init__: the local open and the dispatch of _open_url on the scheme.
LocalOpen ==
    /\ pc = "start"
    /\ \/ /\ inp.local = "ok"
          /\ f_objs' = Append(f_objs, "file")
          /\ opened' = opened \cup {"file"}
          /\ events' = Append(events, <<"open", "local", "ok">>)
          /\ pc' = "detect"
          /\ error' = error
       \/ /\ inp.local # "ok"
          /\ IsUrlFallback(inp.local)
          /\ pc' = IF inp.scheme = "ssh" THEN "ssh_check" ELSE "url_try1"
          /\ UNCHANGED <<f_objs, opened, events, error>>
       \/ /\ inp.local # "ok"
          /\ ~IsUrlFallback(inp.local)
          /\ Raise(MkError("Error", "cannot open file", ""))
          /\ UNCHANGED <<f_objs, opened, events>>
    /\ UNCHANGED <<child_processes, proc, rthread, force_fake_seek, is_url>>
    /\ UNCHANGED ctorFrame

\* _open_url: the first pass of "for timeout in (10, None)".
OpenUrlFirst ==
    /\ pc = "url_try1"
    /\ \/ /\ events' = Append(events, <<"open", "10", "ok">>)
          /\ opened' = opened \cup {"resp1"}
          /\ pc' = "url_try2"
          /\ error' = error
       \/ /\ events' = Append(Append(events, <<"open", "10", "timeout">>),
                              <<"warn", "10", "">>)
          /\ pc' = "url_try2"
          /\ UNCHANGED <<opened, error>>
       \/ /\ events' = Append(events, <<"open", "10", "error">>)
          /\ Raise(MkError("Error", "cannot open URL", ""))
          /\ opened' = opened
    /\ UNCHANGED <<f_objs, child_processes, proc, rthread, force_fake_seek, is_url>>
    /\ UNCHANGED ctorFrame

\* _open_url: the second pass of the loop (timeout None) and the lines after it.
OpenUrlSecond ==
    /\ pc = "url_try2"
    /\ \/ /\ events' = Append(events, <<"open", "None", "ok">>)
          /\ opened' = opened \cup {"resp2"}
          /\ is_url' = TRUE
          /\ f_objs' = Append(f_objs, "resp2")
          /\ pc' = "detect"
          /\ error' = error
       \/ /\ \E r \in {"timeout", "error"} :
                events' = Append(events, <<"open", "None", r>>)
          /\ Raise(MkError("Error", "cannot open URL", ""))
          /\ UNCHANGED <<opened, is_url, f_objs>>
    /\ UNCHANGED <<child_processes, proc, rthread, force_fake_seek>>
    /\ UNCHANGED ctorFrame

\* _open_url_ssh: the availability tests before any command is run.
SshCheck ==
    /\ pc = "ssh_check"
    /\ IF ~ProgramIsAvailable("ssh")
       THEN Raise(MkError("Error", "program not available", "ssh"))
       ELSE IF inp.password /\ ~ProgramIsAvailable(PasswordHelperChecked)
       THEN Raise(MkError("Error", "program not available", "sshpass"))
       ELSE pc' = "ssh_probe1" /\ error' = error
    /\ UNCHANGED <<events, f_objs, opened, child_processes, proc, rthread,
                   force_fake_seek, is_url>>
    /\ UNCHANGED ctorFrame

\* subprocess.Popen(popen_args + [...]) of a probe; Popen raises OSError when
\* the program to run does not exist.
SpawnProbe(p, here, next) ==
    /\ pc = here
    /\ IF ProgramIsAvailable(SshCommand)
       THEN /\ proc' = [proc EXCEPT ![p] = "running"]
            /\ events' = Append(events, <<"spawn", p, "ok">>)
            /\ pc' = next
            /\ error' = error
       ELSE /\ events' = Append(events, <<"spawn", p, "oserror">>)
            /\ Raise(MkError("OSError", "no such file", SshCommand))
            /\ proc' = proc
    /\ UNCHANGED <<f_objs, opened, child_processes, rthread, force_fake_seek,
                   is_url>>
    /\ UNCHANGED ctorFrame

\* A variant of the test below that takes only ssh's own error code as a
\* failure.
ProbeFailedOnlySshError(code) == code = 255

\* "if retcode != 0" / "if child_process.returncode != 0"
ProbeFailed(code) == code # 0

\* child_process.wait() of a probe and the test of its return code.
WaitProbe(p, here, next, msg) ==
    /\ pc = here
    /\ proc[p] = "running"
    /\ \E code \in ExitCodes :
          /\ proc' = [proc EXCEPT ![p] = IF code = 0 THEN "exit_ok"
                                                    ELSE "exit_fail"]
          /\ IF ProbeFailed(code)
             THEN Raise(MkError("Error", msg, DecodeSshpassExitCode(code)))
             ELSE pc' = next /\ error' = error
    /\ UNCHANGED <<events, f_objs, opened, child_processes, rthread,
                   force_fake_seek, is_url>>
    /\ UNCHANGED ctorFrame

SpawnProbe1 == SpawnProbe("probe1", "ssh_probe1", "ssh_wait1")
WaitProbe1 == WaitProbe("probe1", "ssh_wait1", "ssh_probe2", "cannot connect")
SpawnProbe2 == SpawnProbe("probe2", "ssh_probe2", "ssh_wait2")
WaitProbe2 == WaitProbe("probe2", "ssh_wait2", "ssh_fetch", "cannot be read")

\* _open_url_ssh: the "cat" command and the lines after it.
SpawnFetch ==
    /\ pc = "ssh_fetch"
    /\ proc' = [proc EXCEPT !["fetch"] = "running"]
    /\ events' = Append(events, <<"spawn", "fetch", "ok">>)
    /\ f_objs' = Append(f_objs, "sshout")
    /\ opened' = opened \cup {"sshout"}
    /\ child_processes' = Append(child_processes, "fetch")
    /\ is_url' = TRUE
    /\ force_fake_seek' = TRUE
    /\ pc' = "detect"
    /\ UNCHANGED <<error, rthread>>
    /\ UNCHANGED ctorFrame

\* A variant of the test below that forgets the archiver.
MissingProgramDecompressorOnly(ext) ==
    IF ~ProgramIsAvailable(Decompressor(ext)) THEN Decompressor(ext) ELSE "none"

\* _open_compressed_file: "make sure decompressor and the archiver programs
\* are available": the program the Error names, "none" when both are there.
MissingProgram(ext) ==
    IF ~ProgramIsAvailable(Decompressor(ext)) THEN Decompressor(ext)
    ELSE IF ArchiverProgram(ext) # "none"
            /\ ~ProgramIsAvailable(ArchiverProgram(ext))
    THEN ArchiverProgram(ext)
    ELSE "none"

\* _open_compressed_file: "if hasattr(self._f_objs[-1], 'fileno'):
\* child_stdin = self._f_objs[-1].fileno() else: child_stdin = subprocess.PIPE"
ChildStdin(el) == IF HasFileno(el) THEN "fileno" ELSE "PIPE"

\* A variant of the test below that starts the thread for every decompressor.
StartsFeederAlways(child_stdin) == TRUE

\* _open_compressed_file: "if child_stdin == subprocess.PIPE"
StartsFeeder(child_stdin) == child_stdin = "PIPE"

\* _open_compressed_file
OpenCompressedFile ==
    /\ pc = "detect"
    /\ IF inp.ext = "none"
       THEN /\ pc' = "ready"
            /\ UNCHANGED <<error, events, f_objs, opened, child_processes, proc,
                           rthread, force_fake_seek>>
       ELSE IF MissingProgram(inp.ext) # "none"
       THEN /\ Raise(MkError("Error", "program not available",
                             MissingProgram(inp.ext)))
            /\ UNCHANGED <<events, f_objs, opened, child_processes, proc,
                           rthread, force_fake_seek>>
       ELSE /\ proc' = [proc EXCEPT !["decoder"] = "running"]
            /\ LET child_stdin == ChildStdin(LastOf(f_objs))
               IN  IF StartsFeeder(child_stdin)
                   THEN /\ events' = events \o <<<<"spawn", "decoder", "ok">>,
                                                 <<"stdin", child_stdin, "">>,
                                                 <<"thread", "start", "">>>>
                        /\ rthread' = "check"
                   ELSE /\ events' = events \o <<<<"spawn", "decoder", "ok">>,
                                                 <<"stdin", child_stdin, "">>>>
                        /\ rthread' = "none"
            /\ force_fake_seek' = TRUE
            /\ f_objs' = Append(f_objs, "decout")
            /\ opened' = opened \cup {"decout"}
            /\ child_processes' = Append(child_processes, "decoder")
            /\ pc' = "ready"
            /\ error' = error
    /\ UNCHANGED is_url
    /\ UNCHANGED ctorFrame

\* ------------------------------------------------------------ byte streams

\* The size read() passes down for a negative size (0xFFFFFFFFFFFFFFFF in the
\* code; any value larger than every stream of the model reads the same).
ReadToEnd == DataLen + MaxSeek + MaxRead

\* The element the feeder reads: the one below the decompressor's stdout.
FeederSource == f_objs[Len(f_objs) - 1]

\* file_obj.read(n) of element el whose consumer has taken `at` bytes of
\* `total`: the lengths it may return.  A file or a pipe returns n bytes or
\* what is left at end-of-data; a URL response may return fewer.
SourceRead(el, at, total, n) ==
    LET rem == Max(0, total - at)
    IN  IF el \in {"resp1", "resp2"} /\ Min(n, rem) > 0
        THEN 1..Min(n, rem)
        ELSE {Min(n, rem)}

\* self._f_objs[-1].read(n): the lengths the call may return; the empty set
\* while the call blocks.  The stdout of a decompressor fed by the feeder
\* holds what the feeder has written, and ends once its stdin is closed.
ActiveRead(n) ==
    IF rthread # "none"
    THEN IF Len(fstate.fed) - off >= n THEN {n}
         ELSE IF stdin_closed THEN {Len(fstate.fed) - off} ELSE {}
    ELSE SourceRead(LastOf(f_objs), off, DataLen, n)

\* The k bytes self._f_objs[-1].read() returns: the next ones of what the
\* feeder has given the decompressor, or the next ones of the source.
ActiveBytes(k) ==
    IF rthread # "none" THEN SubSeq(fstate.fed, off + 1, off + k)
    ELSE Bytes(<<off, k>>)

\* Whether seek() and tell() are emulated.
Emulated == force_fake_seek \/ ~HasSeek(LastOf(f_objs))

\* tell()
Tell == IF Emulated THEN pos ELSE off

\* The stream can be used: constructed, and teardown has not begun.
Usable == pc = "ready" /\ ~done

\* ---------------------------------------------------------------- feeder

feederFrame == <<inp, pc, error, events, f_objs, opened, closed, child_processes,
                 proc, done, force_fake_seek, pos, is_url, off, sk, last, ref,
                 closes, snap, kill_failed, out, delivered, name, fmt,
               kills>>

\* A variant of the loop test below that does not look at the done flag.
LoopGoesOnRegardless(d) == TRUE

\* _read_thread: "while not self._done"
LoopGoesOn(d) == ~d

\* _read_thread: the test of the loop.
FeederCheck ==
    /\ rthread = "check"
    /\ rthread' = IF LoopGoesOn(done) THEN "read" ELSE "close"
    /\ UNCHANGED <<fstate, stdin_closed>>
    /\ UNCHANGED feederFrame

\* _read_thread: "buf = f_from.read(chunk_size)" and "if not buf: break"
FeederRead ==
    /\ rthread = "read"
    /\ \E k \in SourceRead(FeederSource, fstate.up, DataLen, ChunkSize) :
          IF k = 0
          THEN rthread' = "close" /\ fstate' = fstate
          ELSE /\ rthread' = "write"
               /\ fstate' = [fstate EXCEPT !.up = @ + k,
                                            !.buf = <<fstate.up, k>>]
    /\ UNCHANGED stdin_closed
    /\ UNCHANGED feederFrame

\* A variant of the write below that puts the buffer before what the pipe
\* already holds.
PipeWriteInFront(pipe, buf) == Bytes(buf) \o pipe

\* f_to.write(buf): the bytes the decompressor's stdin has been given.
PipeWrite(pipe, buf) == pipe \o Bytes(buf)

\* _read_thread: "f_to.write(buf)".  Once the decompressor is killed the
\* write either fails, which ends the thread with the exception, or is
\* taken by the pipe object's buffer.
FeederWrite ==
    /\ rthread = "write"
    /\ \/ /\ proc["decoder"] = "running"
          /\ fstate' = [fstate EXCEPT !.fed = PipeWrite(@, fstate.buf),
                                       !.buf = <<0, 0>>]
          /\ rthread' = "check"
       \/ /\ proc["decoder"] # "running"
          /\ fstate' = [fstate EXCEPT !.buf = <<0, 0>>]
          /\ rthread' = "check"
       \/ /\ proc["decoder"] # "running"
          /\ fstate' = fstate
          /\ rthread' = "died"
    /\ UNCHANGED stdin_closed
    /\ UNCHANGED feederFrame

\* _read_thread: "f_to.close()"
FeederClose ==
    /\ rthread = "close"
    /\ stdin_closed' = TRUE
    /\ rthread' = "finished"
    /\ UNCHANGED fstate
    /\ UNCHANGED feederFrame

\* ------------------------------------------------------------ read, seek

opFrame == <<inp, error, events, f_objs, opened, closed, child_processes, proc,
             rthread, fstate, stdin_closed, done, force_fake_seek, is_url,
             closes, snap, kill_failed, name, fmt, kills>>

\* Whether the last operation was an emulated seek() called with a whence
\* that _fake_seek_forward does not know or with a target below the
\* position it started from.
BadSeekCall ==
    /\ last.op = "seek"
    /\ Emulated
    /\ \/ ~last.known
       \/ last.target < last.from

\* Whether the operation before this one was an emulated seek that reached
\* its target: the distance it covered; -2 after a seek call of the kind
\* above, -1 otherwise.
AfterSeek ==
    IF last.op = "seek" /\ last.err = "none" /\ last.left = 0 /\ ~BadSeekCall
    THEN last.target - last.from
    ELSE IF BadSeekCall THEN -2 ELSE -1

\* The source offset before the operation in progress: a read() that comes
\* straight after a seek call of the kind above counts from before that
\* call.
Before == IF BadSeekCall THEN last.at ELSE off

\* read: "if size < 0: size = 0xFFFFFFFFFFFFFFFF"
ReadSize(size) == IF size < 0 THEN ReadToEnd ELSE size

\* A variant of the update below that counts the bytes asked for.
ReadAdvanceByRequest(cur_pos, size, len) == cur_pos + size

\* read: "self._pos += len(buf)"
ReadAdvance(cur_pos, size, len) == cur_pos + len

\* read(size)
Read(size) ==
    /\ Usable
    /\ \E k \in ActiveRead(ReadSize(size)) :
          /\ pos + k <= MaxPos
          /\ off' = off + k
          /\ pos' = ReadAdvance(pos, ReadSize(size), k)
          /\ last' = [NoOp EXCEPT !.op = "read", !.buf = <<off, k>>,
                                  !.after = AfterSeek, !.from = pos,
                                  !.size = size, !.at = Before]
          /\ ref' = [pos |-> Min(ref.pos + k, DataLen),
                     buf |-> <<ref.pos, Min(ref.pos + k, DataLen) - ref.pos>>]
          /\ out' = IF rthread # "none" THEN out \o ActiveBytes(k) ELSE out
          /\ delivered' = delivered + k
    /\ UNCHANGED <<pc, sk>>
    /\ UNCHANGED opFrame

\* A variant of the test below that rejects only negative targets.
SeekBackwardOnlyNegative(new_pos, cur_pos) == new_pos < 0

\* _fake_seek_forward: "if new_pos < cur_pos"
SeekBackward(new_pos, cur_pos) == new_pos < cur_pos

\* A variant of the update below that counts the bytes asked for, not
\* the bytes received.
SeekAdvanceByChunk(to_read, chunk_size, len) == to_read - chunk_size

\* _fake_seek_forward: "to_read -= len(buf)"
SeekAdvance(to_read, chunk_size, len) == to_read - len

\* _fake_seek_forward: "if to_read < 0"
SeekedTooFar(to_read) == to_read < 0

\* A variant of the return value below that adds the bytes not read.
SeekResultOvershoots(new_pos, to_read) == new_pos + to_read

\* A variant of the return value below that reports the target.
SeekResultIsTarget(new_pos, to_read) == new_pos

\* _fake_seek_forward: "return new_pos - to_read"
SeekResult(new_pos, to_read) == new_pos - to_read

\* The reference stream discards n bytes by plain read(c) calls.
RECURSIVE RefDiscard(_, _, _)
RefDiscard(p, n, c) ==
    IF n <= 0 \/ p >= DataLen THEN p
    ELSE RefDiscard(p + Min(Min(c, n), DataLen - p), n - Min(c, n), c)

\* The end of _fake_seek_forward and of seek(): the test after the loop,
\* the return value and the assignment to self._pos.
SeekFinish(new_pos, cur_pos, to_read, known, at) ==
    /\ pc' = "ready"
    /\ sk' = NoSeek
    /\ IF SeekedTooFar(to_read)
       THEN /\ pos' = pos
            /\ last' = [NoOp EXCEPT !.op = "seek", !.err = "Error: seeked too far",
                                    !.target = new_pos, !.from = cur_pos,
                                    !.left = to_read, !.known = known,
                                    !.at = at]
       ELSE /\ pos' = SeekResult(new_pos, to_read)
            /\ last' = [NoOp EXCEPT !.op = "seek", !.target = new_pos,
                                    !.from = cur_pos, !.left = to_read,
                                    !.known = known, !.at = at]

\* The whence values that _fake_seek_forward names.
Whences == {SEEK_SET, SEEK_CUR}

\* A variant of the test below that lets every whence through: what is not
\* SEEK_SET is then taken as relative to the current position.
WhenceRecognizedAlways(whence) == TRUE

\* _fake_seek_forward: the "if whence == os.SEEK_SET / elif whence ==
\* os.SEEK_CUR" chain, whose else branch raises.
WhenceRecognized(whence) == whence \in Whences

\* seek(offset, whence) with emulation: _fake_seek_forward up to its loop.
SeekEmulated(offset, whence) ==
    /\ Usable
    /\ Emulated
    /\ off' = off
    /\ IF ~WhenceRecognized(whence)
       THEN /\ last' = [NoOp EXCEPT !.op = "seek", !.err = "Error: whence",
                                    !.target = pos, !.from = pos,
                                    !.known = whence \in Whences,
                                    !.at = off]
            /\ UNCHANGED <<pc, sk, pos, ref>>
       ELSE LET new_pos == IF whence = SEEK_SET THEN offset ELSE pos + offset
            IN  IF SeekBackward(new_pos, pos)
                THEN /\ last' = [NoOp EXCEPT !.op = "seek",
                                    !.err = "Error: only seeking forward",
                                    !.target = new_pos, !.from = pos,
                                    !.known = whence \in Whences,
                                    !.at = off]
                     /\ UNCHANGED <<pc, sk, pos, ref>>
                ELSE /\ \E c \in 1..MaxRead :
                           ref' = [ref EXCEPT
                                     !.pos = RefDiscard(ref.pos, new_pos - pos, c)]
                     /\ IF new_pos - pos > 0
                        THEN /\ pc' = "seeking"
                             /\ sk' = [new_pos |-> new_pos,
                                       to_read |-> new_pos - pos,
                                       cur_pos |-> pos,
                                       known |-> whence \in Whences,
                                       at |-> off]
                             /\ UNCHANGED <<pos, last>>
                        ELSE SeekFinish(new_pos, pos, 0, whence \in Whences,
                                         off)
    /\ UNCHANGED <<out, delivered>>
    /\ UNCHANGED opFrame

\* _fake_seek_forward: one pass of "while to_read > 0".
SeekStep ==
    /\ pc = "seeking"
    /\ LET chunk_size == Min(sk.to_read, ChunkSize)
       IN  \E k \in ActiveRead(chunk_size) :
              /\ off' = off + k
              /\ LET to_read == SeekAdvance(sk.to_read, chunk_size, k)
                 IN  IF k = 0
                     THEN SeekFinish(sk.new_pos, sk.cur_pos, sk.to_read,
                                     sk.known, sk.at)
                     ELSE IF to_read > 0
                     THEN /\ sk' = [sk EXCEPT !.to_read = to_read]
                          /\ UNCHANGED <<pc, pos, last>>
                     ELSE SeekFinish(sk.new_pos, sk.cur_pos, to_read,
                                     sk.known, sk.at)
    /\ UNCHANGED <<ref, out, delivered>>
    /\ UNCHANGED opFrame

\* seek(offset, whence) without emulation: the element's own seek().  A
\* local file moves anywhere at or after its start; a URL response that has
\* a seek attribute refuses.
SeekNative(offset, whence) ==
    /\ Usable
    /\ ~Emulated
    /\ offset <= MaxPos - off
    /\ LET target == CASE whence = SEEK_SET -> offset
                       [] whence = SEEK_CUR -> off + offset
                       [] OTHER -> DataLen + offset
       IN  IF LastOf(f_objs) # "file"
           THEN /\ last' = [NoOp EXCEPT !.op = "seek",
                               !.err = "UnsupportedOperation", !.from = off]
                /\ off' = off
           ELSE IF target < 0
           THEN /\ last' = [NoOp EXCEPT !.op = "seek", !.err = "IOError",
                               !.from = off]
                /\ off' = off
           ELSE /\ last' = [NoOp EXCEPT !.op = "seek", !.target = target,
                               !.from = off]
                /\ off' = target
    /\ UNCHANGED <<pc, sk, pos, ref, out, delivered>>
    /\ UNCHANGED opFrame

\* --------------------------------------------------------------- teardown

tdFrame == <<inp, error, events, f_objs, opened, child_processes, fstate,
             stdin_closed, force_fake_seek, pos, is_url, off, sk, ref, out,
             delivered, name, fmt>>

\* The state of the processes once the first n tracked children are killed.
AfterKills(n) ==
    [p \in Processes |->
        IF \E i \in 1..n : child_processes[i] = p THEN "killed" ELSE proc[p]]

\* The kill() calls sent once the first n tracked children are killed.
KillsAfter(n) ==
    [p \in Processes |->
        IF \E i \in 1..n : child_processes[i] = p THEN kills[p] + 1
        ELSE kills[p]]

\* __del__: "self._done = True"
TeardownSetDone == done' = TRUE

\* __del__: "for child in self._child_processes: child.kill()".  kill()
\* raises when the signal cannot be delivered; failAt is the child whose
\* kill() raises, 0 when none does.  Nothing in __del__ catches the
\* exception: the children before failAt are killed, the rest of __del__
\* does not run.
TeardownKill(failAt) ==
    /\ proc' = AfterKills(IF failAt = 0 THEN Len(child_processes) ELSE failAt - 1)
    /\ kills' = KillsAfter(IF failAt = 0 THEN Len(child_processes) ELSE failAt - 1)
    /\ kill_failed' = IF failAt = 0 THEN "none" ELSE child_processes[failAt]

\* A variant of the join below that does not wait for the thread.
JoinedWithoutWaiting == TRUE

\* __del__: "if self._rthread: self._rthread.join()" returns.
Joined == rthread \in {"none", "finished", "died"}

\* __del__: "for file_obj in self._f_objs: file_obj.close()"
TeardownCloseFiles == closed' = closed \cup Range(f_objs)

\* The stream state a close() call leaves, and whether it is the state the
\* first call left.
Snapshot(d, c, pr, rt) ==
    IF snap.taken
    THEN [snap EXCEPT !.same = /\ snap.done = d /\ snap.closed = c
                               /\ snap.proc = pr /\ snap.rthread = rt]
    ELSE [taken |-> TRUE, same |-> TRUE, done |-> d, closed |-> c, proc |-> pr,
          rthread |-> rt]

\* close(): __del__ sets the done flag.
CloseBegin ==
    /\ pc = "ready"
    /\ closes < MaxCloses
    /\ TeardownSetDone
    /\ pc' = "close_kill"
    /\ UNCHANGED <<closed, rthread, proc, kill_failed, last, closes, snap, kills>>
    /\ UNCHANGED tdFrame

\* close(): __del__ kills the tracked children; a kill() that raises ends
\* close() with the exception.
CloseKill ==
    /\ pc = "close_kill"
    /\ \E failAt \in 0..Len(child_processes) :
          /\ TeardownKill(failAt)
          /\ IF failAt = 0
             THEN /\ pc' = "close_join"
                  /\ UNCHANGED <<last, closes, snap>>
             ELSE /\ pc' = "ready"
                  /\ last' = [NoOp EXCEPT !.op = "close", !.err = "OSError"]
                  /\ closes' = closes + 1
                  /\ snap' = Snapshot(done, closed, proc', rthread)
    /\ UNCHANGED <<done, closed, rthread>>
    /\ UNCHANGED tdFrame

\* close(): the join returns, the chain is closed, close() returns.
CloseEnd ==
    /\ pc = "close_join"
    /\ Joined
    /\ TeardownCloseFiles
    /\ pc' = "ready"
    /\ last' = [NoOp EXCEPT !.op = "close"]
    /\ closes' = closes + 1
    /\ snap' = Snapshot(done, closed', proc, rthread)
    /\ UNCHANGED <<done, proc, rthread, kill_failed, kills>>
    /\ UNCHANGED tdFrame

\* The interpreter calls __del__ on an object nothing refers to any more:
\* the caller dropped the stream, or the constructor raised.  An exception
\* in __del__ is ignored by the interpreter.
DelBegin ==
    /\ pc \in {"ready", "failed"}
    /\ TeardownSetDone
    /\ pc' = "del_kill"
    /\ UNCHANGED <<closed, rthread, proc, kill_failed, last, closes, snap, kills>>
    /\ UNCHANGED tdFrame

DelKill ==
    /\ pc = "del_kill"
    /\ \E failAt \in 0..Len(child_processes) :
          /\ TeardownKill(failAt)
          /\ pc' = IF failAt = 0 THEN "del_join" ELSE "gone"
    /\ UNCHANGED <<done, closed, rthread, last, closes, snap>>
    /\ UNCHANGED tdFrame

DelEnd ==
    /\ pc = "del_join"
    /\ Joined
    /\ TeardownCloseFiles
    /\ pc' = "gone"
    /\ UNCHANGED <<done, proc, rthread, last, closes, snap, kill_failed, kills>>
    /\ UNCHANGED tdFrame

\* ------------------------------------------------------------ specification

Next ==
    \/ LocalOpen
    \/ OpenUrlFirst
    \/ OpenUrlSecond
    \/ SshCheck
    \/ SpawnProbe1
    \/ WaitProbe1
    \/ SpawnProbe2
    \/ WaitProbe2
    \/ SpawnFetch
    \/ OpenCompressedFile
    \/ FeederCheck
    \/ FeederRead
    \/ FeederWrite
    \/ FeederClose
    \/ \E size \in -1..MaxRead : Read(size)
    \/ \E offset \in -1..MaxSeek, whence \in {SEEK_SET, SEEK_CUR, SEEK_END} :
          SeekEmulated(offset, whence)
    \/ SeekStep
    \/ \E offset \in -1..MaxSeek, whence \in {SEEK_SET, SEEK_CUR, SEEK_END} :
          SeekNative(offset, whence)
    \/ CloseBegin
    \/ CloseKill
    \/ CloseEnd
    \/ DelBegin
    \/ DelKill
    \/ DelEnd

Spec == Init /\ [][Next]_vars

\* ------------------------------------------------------ format resolution
\*
\* _get_archive_extension and the descriptor lookup of _open_compressed_file
\* as a function of the name, with the tables of the module.  A name is the
\* sequence of its characters.

\* Number of suffix pieces a name is built from.
MaxPieces == 2

X_bz2 == <<".", "b", "z", "2">>
X_gz == <<".", "g", "z">>
X_xz == <<".", "x", "z">>
X_lzo == <<".", "l", "z", "o">>
X_lz4 == <<".", "l", "z", "4">>
X_zip == <<".", "z", "i", "p">>
X_tar == <<".", "t", "a", "r">>
X_tbz2 == <<".", "t", "b", "z", "2">>
X_tbz == <<".", "t", "b", "z">>
X_tb2 == <<".", "t", "b", "2">>
X_tgz == <<".", "t", "g", "z">>
X_txz == <<".", "t", "x", "z">>
X_tzo == <<".", "t", "z", "o">>
X_tlz4 == <<".", "t", "l", "z", "4">>
X_gzip == <<".", "g", "z", "i", "p">>

EXTENSION_ALIASES ==
    {[ext |-> X_tbz2, alias |-> X_tar \o X_bz2],
     [ext |-> X_tbz, alias |-> X_tar \o X_bz2],
     [ext |-> X_tb2, alias |-> X_tar \o X_bz2],
     [ext |-> X_tgz, alias |-> X_tar \o X_gz],
     [ext |-> X_txz, alias |-> X_tar \o X_xz],
     [ext |-> X_tzo, alias |-> X_tar \o X_lzo],
     [ext |-> X_tlz4, alias |-> X_tar \o X_lz4],
     [ext |-> X_gzip, alias |-> X_gz]}

NESTED_EXTENSION_ALIASES ==
    {[ext |-> X_tar \o X_gzip, alias |-> X_tar \o X_gz]}

DECOMPRESSER_EXTENSIONS ==
    {[ext |-> X_bz2, type |-> "bzip2", program |-> "bzip2", args |-> "-d -c"],
     [ext |-> X_gz, type |-> "gzip", program |-> "gzip", args |-> "-d -c"],
     [ext |-> X_xz, type |-> "xz", program |-> "xz", args |-> "-d -c"],
     [ext |-> X_lzo, type |-> "lzo", program |-> "lzop", args |-> "-d -c"],
     [ext |-> X_lz4, type |-> "lz4", program |-> "lz4", args |-> "-d -c"],
     [ext |-> X_zip, type |-> "zip", program |-> "funzip", args |-> ""],
     [ext |-> X_tar, type |-> "tar", program |-> "tar", args |-> "-x -O"]}

NESTED_DECOMPRESSER_EXTENSIONS ==
    {[ext |-> X_tar \o X_bz2, program |-> "tar", args |-> "-x -j -O"],
     [ext |-> X_tar \o X_gz, program |-> "tar", args |-> "-x -z -O"],
     [ext |-> X_tar \o X_xz, program |-> "tar", args |-> "-x -J -O"],
     [ext |-> X_tar \o X_lzo, program |-> "tar", args |-> "-x --lzo -O"],
     [ext |-> X_tar \o X_lz4, program |-> "tar", args |-> "-x -Ilz4 -O"]}

\* str.endswith()
EndsWith(n, suffix) ==
    /\ Len(n) >= Len(suffix)
    /\ SubSeq(n, Len(n) - Len(suffix) + 1, Len(n)) = suffix

\* The entries of a table whose key the name ends with.
Matching(table, n) == {e \in table : EndsWith(n, e.ext)}

\* A variant of the function below that tests the aliases before the
\* nested aliases.
GetArchiveExtensionAliasesFirst(n) ==
    IF Matching(EXTENSION_ALIASES, n) # {}
    THEN {e.alias : e \in Matching(EXTENSION_ALIASES, n)}
    ELSE IF Matching(NESTED_EXTENSION_ALIASES, n) # {}
    THEN {e.alias : e \in Matching(NESTED_EXTENSION_ALIASES, n)}
    ELSE IF Matching(NESTED_DECOMPRESSER_EXTENSIONS, n) # {}
    THEN {e.ext : e \in Matching(NESTED_DECOMPRESSER_EXTENSIONS, n)}
    ELSE IF Matching(DECOMPRESSER_EXTENSIONS, n) # {}
    THEN {e.ext : e \in Matching(DECOMPRESSER_EXTENSIONS, n)}
    ELSE {NoExtension}

\* _get_archive_extension(name): the values it may return.  Each loop goes
\* over a dictionary, in an order the language does not fix, and returns at
\* the first key the name ends with.
GetArchiveExtension(n) ==
    IF Matching(NESTED_EXTENSION_ALIASES, n) # {}
    THEN {e.alias : e \in Matching(NESTED_EXTENSION_ALIASES, n)}
    ELSE IF Matching(EXTENSION_ALIASES, n) # {}
    THEN {e.alias : e \in Matching(EXTENSION_ALIASES, n)}
    ELSE IF Matching(NESTED_DECOMPRESSER_EXTENSIONS, n) # {}
    THEN {e.ext : e \in Matching(NESTED_DECOMPRESSER_EXTENSIONS, n)}
    ELSE IF Matching(DECOMPRESSER_EXTENSIONS, n) # {}
    THEN {e.ext : e \in Matching(DECOMPRESSER_EXTENSIONS, n)}
    ELSE {NoExtension}

\* Pieces the names are put together from: every key of the alias and the
\* decompressor tables, and pieces that are the key of no table.
Pieces ==
    {e.ext : e \in EXTENSION_ALIASES \cup DECOMPRESSER_EXTENSIONS}
    \cup {<<>>, <<".", "i", "m", "g">>, <<"g", "z">>, <<".", "G", "Z">>}

RECURSIVE NamesOf(_)
NamesOf(k) ==
    IF k = 0 THEN {<<>>, <<"a">>}
    ELSE {n \o p : n \in NamesOf(k - 1), p \in Pieces}

Names == NamesOf(MaxPieces)

\* The environments the resolution is run in: they differ in the
\* decompressors installed.
FormatInputs == {i \in Inputs : i.local = "ok" /\ i.ext = ".gz"}

InitFormat ==
    /\ inp \in FormatInputs
    /\ name \in Names
    /\ fmt = NoFormat
    /\ pc = "detect"
    /\ error = NoError
    /\ events = <<>>
    /\ f_objs = <<"file">>
    /\ opened = {"file"}
    /\ closed = {}
    /\ child_processes = <<>>
    /\ proc = [p \in Processes |-> "none"]
    /\ rthread = "none"
    /\ fstate = [up |-> 0, buf |-> <<0, 0>>, fed |-> <<>>]
    /\ stdin_closed = FALSE
    /\ done = FALSE
    /\ force_fake_seek = FALSE
    /\ pos = 0
    /\ is_url = FALSE
    /\ off = 0
    /\ sk = NoSeek
    /\ last = NoOp
    /\ ref = [pos |-> 0, buf |-> <<0, 0>>]
    /\ closes = 0
    /\ snap = NoSnap
    /\ kill_failed = "none"
    /\ out = <<>>
    /\ delivered = 0
    /\ kills = [p \in Processes |-> 0]

formatFrame == <<inp, pc, error, events, f_objs, opened, closed, child_processes,
                 proc, rthread, fstate, stdin_closed, done, force_fake_seek, pos,
                 is_url, off, sk, last, ref, closes, snap, kill_failed, out,
                 delivered, name, kills>>

\* "archive_extension = _get_archive_extension(self.name)" and the return
\* of the uncompressed case.
ResolveExtension ==
    /\ fmt.step = "start"
    /\ \E x \in GetArchiveExtension(name) :
          fmt' = [fmt EXCEPT !.step = IF x = NoExtension THEN "done"
                                                        ELSE "extension",
                             !.archive_extension = x]
    /\ UNCHANGED formatFrame

\* "for extension in DECOMPRESSER_EXTENSIONS: if
\* archive_extension.endswith(extension): ... break", the pigz substitution
\* and "if archive_extension in NESTED_DECOMPRESSER_EXTENSIONS".  (pbzip2
\* is not among the programs of the model.)
ResolveDescriptor ==
    /\ fmt.step = "extension"
    /\ \E d \in Matching(DECOMPRESSER_EXTENSIONS, fmt.archive_extension) :
          LET nested == {e \in NESTED_DECOMPRESSER_EXTENSIONS :
                           e.ext = fmt.archive_extension}
          IN  \E a \in IF nested = {} THEN {[program |-> "none", args |-> d.args]}
                        ELSE {[program |-> e.program, args |-> e.args] :
                                 e \in nested} :
                 fmt' = [fmt EXCEPT
                           !.step = "done",
                           !.compression_type = d.type,
                           !.decompressor =
                               IF d.program = "gzip" /\ ProgramIsAvailable("pigz")
                               THEN "pigz" ELSE d.program,
                           !.archiver = a.program,
                           !.args = a.args]
    /\ UNCHANGED formatFrame

NextFormat ==
    \/ ResolveExtension
    \/ ResolveDescriptor

SpecFormat == InitFormat /\ [][NextFormat]_vars

\* ------------------------------------------- the feeder-fed stream, fairly
\*
\* The stream of a URL whose response has no fileno and whose name resolves
\* to a compressed format: the one the feeder thread exists for.  The feeder
\* thread is scheduled, its pending read and write return, and a teardown
\* that has begun goes on; the caller's read() and close() calls are the
\* caller's choice.  (To the feeder a seek() is the read() calls it makes.)

InitFeeder == Init /\ ~inp.fileno

NextFeeder ==
    \/ LocalOpen
    \/ OpenUrlFirst
    \/ OpenUrlSecond
    \/ OpenCompressedFile
    \/ FeederCheck
    \/ FeederRead
    \/ FeederWrite
    \/ FeederClose
    \/ \E size \in -1..MaxRead : Read(size)
    \/ CloseBegin
    \/ CloseKill
    \/ CloseEnd
    \/ DelBegin
    \/ DelKill
    \/ DelEnd

SpecFeeder ==
    /\ InitFeeder
    /\ [][NextFeeder]_vars
    /\ WF_vars(FeederCheck)
    /\ WF_vars(FeederRead)
    /\ WF_vars(FeederWrite)
    /\ WF_vars(FeederClose)
    /\ WF_vars(CloseKill)
    /\ WF_vars(CloseEnd)
    /\ WF_vars(DelKill)
    /\ WF_vars(DelEnd)

\* ------------------------------------------------------------------ claims

\* A teardown has ended: close() has returned or raised, or the interpreter
\* has finished __del__.
CloseReturned == pc = "ready" /\ closes >= 1
TeardownEnded == CloseReturned \/ pc = "gone"

\* C1: every close() call on a constructed stream raises no error, and every
\* call after the first leaves the done flag, the closed chain elements, the
\* processes and the feeder as the first call left them.
C1_CloseIdempotent ==
    closes >= 1 => /\ last.op = "close"
                   /\ last.err = "none"
                   /\ snap.same

\* The URL opens of the constructor, in order.
UrlOpens == SelectSeq(events, LAMBDA e : e[1] = "open" /\ e[2] # "local")
Warnings == SelectSeq(events, LAMBDA e : e[1] = "warn")

\* C2: the URL is opened a second time, with no timeout, if and only if the
\* first attempt (10 s timeout) timed out, with exactly one warning between
\* the two attempts; a first attempt that succeeds is not followed by a
\* second open and its response is the head of the chain.
C2_SecondOpenOnlyAfterTimeout ==
    /\ Len(UrlOpens) = 2 =>
          /\ UrlOpens[1] = <<"open", "10", "timeout">>
          /\ UrlOpens[2][2] = "None"
          /\ Len(Warnings) = 1
          /\ events[2] = <<"warn", "10", "">>
    /\ (Len(UrlOpens) >= 1 /\ UrlOpens[1][3] = "timeout" /\ pc # "url_try2")
          => Len(UrlOpens) = 2
    /\ (Len(UrlOpens) >= 1 /\ UrlOpens[1][3] = "ok" /\ pc # "url_try2")
          => /\ Len(UrlOpens) = 1
             /\ f_objs[1] = "resp1"
    /\ Len(UrlOpens) = 1 => Len(Warnings) = 0 \/ pc = "url_try2"

\* The last operation was an emulated seek whose source ended before the
\* target was reached.
SeekRanOut ==
    /\ pc = "ready"
    /\ last.op = "seek"
    /\ Emulated
    /\ last.left > 0

C4_SeekEqualsDiscardingReads ==
    (/\ pc = "ready"
     /\ Emulated
     /\ \/ last.op = "seek" /\ last.err = "none" /\ last.left = 0
        \/ last.op = "read" /\ last.after >= 0)
    => /\ Tell = ref.pos
       /\ off = ref.pos
       /\ last.op = "read" => last.buf = ref.buf

C4_Witness ==
    /\ pc = "ready"
    /\ Emulated
    /\ last.op = "read"
    /\ last.after > 0
    /\ last.buf[1] > 0
    /\ last.buf[2] > 0

Spawned == SelectSeq(events, LAMBDA e : e[1] = "spawn" /\ e[3] = "ok")
SshOrder == <<"probe1", "probe2", "fetch">>

\* C6: the SSH invocations are started in the order connectivity probe,
\* existence probe, stream fetch, each after the one before it has exited
\* with status 0; when a probe exits non-zero the constructor raises Error
\* and the stream fetch is never spawned nor tracked.
C6_SshStepsInOrder ==
    /\ \A i \in 1..Len(Spawned) : i <= 3 /\ inp.scheme = "ssh"
                                    => Spawned[i][2] = SshOrder[i]
    /\ proc["probe2"] # "none" => proc["probe1"] = "exit_ok"
    /\ proc["fetch"] # "none" => proc["probe2"] = "exit_ok"
    /\ (proc["probe1"] = "exit_fail" \/ proc["probe2"] = "exit_fail")
          => /\ pc \in {"failed", "del_kill", "del_join", "gone"}
             /\ error.kind = "Error"
             /\ proc["fetch"] = "none"
             /\ "fetch" \notin Range(child_processes)
             /\ f_objs = <<>>

C6_Witness ==
    /\ pc = "failed"
    /\ proc["probe1"] = "exit_ok"
    /\ proc["probe2"] = "exit_fail"

\* C7: when the constructor's exception reaches the caller, every process
\* spawned so far has been terminated and every source opened so far has
\* been closed.
C7_FailedConstructionReleasesAll ==
    pc = "failed" => /\ \A p \in Processes : proc[p] # "running"
                     /\ opened \subseteq closed

\* The constructor raised because the decompressor or the archiver is not
\* available.
DecoderMissingError ==
    /\ error.kind = "Error"
    /\ error.msg = "program not available"
    /\ error.prog \in {"gzip", "pigz", "tar"}

\* The name resolves to a format whose decompressor (gzip, or pigz in its
\* place) or, for the nested format, whose archiver is not installed.
RequiredProgramMissing ==
    \/ inp.ext \in {".gz", ".tar.gz"} /\ inp.avail \cap {"gzip", "pigz"} = {}
    \/ inp.ext = ".tar.gz" /\ "tar" \notin inp.avail

\* C8 as stated: the Error for an unavailable decompressor or archiver is
\* raised before any process is spawned, whatever the source.
C8_MissingDecoderBeforeAnyProcess ==
    DecoderMissingError => \A p \in Processes : proc[p] = "none"

\* C8 as amended: when the decompressor, or the archiver of a nested format,
\* is unavailable, no decompressor process and no feeder is ever started and
\* the constructor cannot complete; the Error names the missing program.
\* With a local or an HTTP source no process at all has been spawned; with
\* an SSH source the two probes and the stream fetch have been spawned
\* before the test is made.
C8_MissingDecoderNoDecoderProcess ==
    /\ RequiredProgramMissing
          => /\ proc["decoder"] = "none"
             /\ rthread = "none"
             /\ "decout" \notin opened
             /\ pc \notin {"ready", "seeking", "close_kill", "close_join"}
    /\ DecoderMissingError
          => /\ inp.ext # "none"
             /\ error.prog \notin inp.avail
             /\ RequiredProgramMissing
             /\ error.prog = IF inp.avail \cap {"gzip", "pigz"} = {}
                             THEN "gzip" ELSE "tar"
             /\ inp.scheme # "ssh" => \A p \in Processes : proc[p] = "none"
             /\ inp.scheme = "ssh" => /\ proc["probe1"] = "exit_ok"
                                      /\ proc["probe2"] = "exit_ok"
                                      /\ proc["fetch"] # "none"

C8_Witness ==
    /\ DecoderMissingError
    /\ error.prog = "tar"
    /\ inp.scheme = "ssh"
    /\ pc = "failed"

\* C9: with a password in an ssh:// URL, the ssh client available and
\* sshpass not, the constructor raises the Error that names sshpass and
\* starts no SSH invocation.
C9_MissingSshpassRaisesError ==
    (/\ inp.scheme = "ssh"
     /\ inp.password
     /\ "ssh" \in inp.avail
     /\ "sshpass" \notin inp.avail
     /\ pc \notin {"start", "ssh_check"})
    => /\ error = MkError("Error", "program not available", "sshpass")
       /\ \A i \in 1..Len(events) : events[i][1] # "spawn"

\* C10: teardown never raises; when the kill() of a tracked process fails,
\* the other tracked processes are still terminated, the feeder is joined
\* and every chain element is closed.
C10_TeardownSwallowsKillFailure ==
    TeardownEnded
    => /\ last.op = "close" => last.err = "none"
       /\ \A p \in Range(child_processes) :
             p # kill_failed => proc[p] = "killed"
       /\ Joined
       /\ Range(f_objs) \subseteq closed

\* The last operation was a read() that has returned.
ReadReturned == pc = "ready" /\ last.op = "read"

\* The active element is at end-of-data.
AtEndOfData == ActiveRead(1) = {0}

C11_WitnessEnd ==
    /\ ReadReturned
    /\ last.size < 0
    /\ last.buf[2] = 0
    /\ last.from > 0

\* The byte sequence the deepest source produces.
SourceData == Bytes(<<0, DataLen>>)

\* The decompressor of the stream is fed by the feeder thread.
FeederFed == rthread # "none"

\* No seek() of the stream has discarded bytes.
NothingSkipped == Len(out) = pos

\* C12: on a stream whose decompressor is fed by the feeder thread, read in
\* any sizes under any interleaving with the feeder, the bytes returned to
\* the caller so far are, in order, the first bytes the deepest source
\* produces, and all of them once a read() has returned empty.
C12_FeederKeepsOrder ==
    (FeederFed /\ NothingSkipped)
    => /\ out = SubSeq(SourceData, 1, Len(out))
       /\ (ReadReturned /\ last.buf[2] = 0 /\ last.size # 0) => out = SourceData

C12_Witness ==
    /\ FeederFed
    /\ NothingSkipped
    /\ ReadReturned
    /\ last.buf[2] = 0
    /\ last.size = 1
    /\ out = SourceData

\* The suffixes of the tar formats with what each resolves to, and the
\* suffixes of the plain formats.
TarForms ==
    {[suffix |-> X_tar \o X_gzip, type |-> "gzip", args |-> "-x -z -O"],
     [suffix |-> X_tgz, type |-> "gzip", args |-> "-x -z -O"],
     [suffix |-> X_tar \o X_gz, type |-> "gzip", args |-> "-x -z -O"],
     [suffix |-> X_tbz2, type |-> "bzip2", args |-> "-x -j -O"],
     [suffix |-> X_tbz, type |-> "bzip2", args |-> "-x -j -O"],
     [suffix |-> X_tb2, type |-> "bzip2", args |-> "-x -j -O"],
     [suffix |-> X_tar \o X_bz2, type |-> "bzip2", args |-> "-x -j -O"],
     [suffix |-> X_txz, type |-> "xz", args |-> "-x -J -O"],
     [suffix |-> X_tar \o X_xz, type |-> "xz", args |-> "-x -J -O"],
     [suffix |-> X_tzo, type |-> "lzo", args |-> "-x --lzo -O"],
     [suffix |-> X_tar \o X_lzo, type |-> "lzo", args |-> "-x --lzo -O"],
     [suffix |-> X_tlz4, type |-> "lz4", args |-> "-x -Ilz4 -O"],
     [suffix |-> X_tar \o X_lz4, type |-> "lz4", args |-> "-x -Ilz4 -O"]}

PlainForms ==
    {[suffix |-> X_gzip, type |-> "gzip"], [suffix |-> X_gz, type |-> "gzip"],
     [suffix |-> X_bz2, type |-> "bzip2"], [suffix |-> X_xz, type |-> "xz"],
     [suffix |-> X_lzo, type |-> "lzo"], [suffix |-> X_lz4, type |-> "lz4"],
     [suffix |-> X_zip, type |-> "zip"], [suffix |-> X_tar, type |-> "tar"]}

EndsInTarForm == \E t \in TarForms : EndsWith(name, t.suffix)
EndsInPlainForm == \E f \in PlainForms : EndsWith(name, f.suffix)

\* C13: a name that ends in a nested suffix or in an alias of one resolves
\* to the archiver tar with the flag of the inner format and to the inner
\* compression type, also when it ends in a shorter suffix of a plain
\* format ('.tar.gzip' against '.gzip', '.tar.gz' against '.gz'); a name
\* that ends only in a plain suffix resolves to that format without an
\* archiver; a name that ends in no suffix resolves to uncompressed.
C13_NestedAndAliasedWin ==
    fmt.step = "done"
    => /\ \A t \in TarForms :
             EndsWith(name, t.suffix) => /\ fmt.archiver = "tar"
                                         /\ fmt.args = t.args
                                         /\ fmt.compression_type = t.type
       /\ \A f \in PlainForms :
             (EndsWith(name, f.suffix) /\ ~EndsInTarForm)
             => /\ fmt.archiver = "none"
                /\ fmt.compression_type = f.type
       /\ (~EndsInTarForm /\ ~EndsInPlainForm)
             => /\ fmt.archive_extension = NoExtension
                /\ fmt.compression_type = "none"
                /\ fmt.decompressor = "none"
                /\ fmt.archiver = "none"

C13_Witness ==
    /\ fmt.step = "done"
    /\ EndsWith(name, X_tar \o X_gzip)
    /\ Len(name) > Len(X_tar \o X_gzip)
    /\ fmt.archiver = "tar"
    /\ fmt.compression_type = "gzip"

\* The constructor has opened the URL or has started an SSH invocation.
NetworkOpened == \E i \in 1..Len(events) :
                    \/ events[i][1] = "open" /\ events[i][2] # "local"
                    \/ events[i][1] = "spawn" /\ events[i][2] # "decoder"

\* C14: the URL is opened, or SSH is run, only when the local open failed
\* because the path does not exist: by SSH for the scheme ssh, by the
\* generic fetch for any other scheme.  A local open that fails otherwise
\* raises Error at once, with nothing opened and no process spawned.
C14_UrlOnlyWhenNotFound ==
    /\ NetworkOpened => inp.local = "enoent"
    /\ pc \in {"url_try1", "url_try2", "ssh_check", "ssh_probe1", "ssh_wait1",
                "ssh_probe2", "ssh_wait2", "ssh_fetch"} => inp.local = "enoent"
    /\ pc \in {"url_try1", "url_try2"} => inp.scheme # "ssh"
    /\ UrlOpens # <<>> => inp.scheme # "ssh"
    /\ (\E p \in {"probe1", "probe2", "fetch"} : proc[p] # "none")
          => inp.scheme = "ssh"
    /\ (inp.local = "eacces" /\ pc # "start")
          => /\ pc \in {"failed", "del_kill", "del_join", "gone"}
             /\ error.kind = "Error"
             /\ events = <<>>
             /\ opened = {}
             /\ f_objs = <<>>
             /\ \A p \in Processes : proc[p] = "none"

C14_Witness == inp.local = "eacces" /\ pc = "failed"

\* Every tracked child process has been sent termination.
AllKilled == \A p \in Range(child_processes) : proc[p] = "killed"

\* The feeder thread is not running: there is none, or it has ended.
FeederStopped == rthread \in {"none", "finished", "died"}

\* C15: close() sets the done flag, then terminates every tracked child,
\* then waits for the feeder thread, then closes every chain element: the
\* children are terminated only with the flag set, the wait is made only
\* with the children terminated, and an element is closed only with the
\* feeder stopped.  When close() returns, the flag is set, every tracked
\* child has been terminated, the feeder is not running and every chain
\* element is closed.
C15_CloseStepsInOrder ==
    /\ pc = "close_kill" => done
    /\ (\E p \in Range(child_processes) : proc[p] = "killed") => done
    /\ pc = "close_join" => done /\ AllKilled
    /\ closed # {} => done /\ AllKilled /\ FeederStopped
    /\ (CloseReturned /\ last.op = "close" /\ last.err = "none")
          => /\ done
             /\ AllKilled
             /\ FeederStopped
             /\ Range(f_objs) \subseteq closed

C15_Witness ==
    /\ CloseReturned
    /\ last.op = "close"
    /\ last.err = "none"
    /\ rthread = "finished"
    /\ closed = {"resp2", "decout"}

\* The feeder thread was started and has stopped.
FeederEnded == rthread \in {"finished", "died"}

\* C16: whenever the feeder thread was started and has stopped, at upstream
\* end-of-data, on the done flag or on a failed write, the decompressor's
\* stdin has been closed.
C16_FeederAlwaysClosesInput == FeederEnded => stdin_closed

\* C17: once the done flag is set, the test of the feeder's loop never lets
\* the loop run again, so the feeder finishes at most the pass it is in (one
\* read and one write) and stops; a close() that waits for the feeder
\* returns, and a teardown by the interpreter ends.
C17_FeederStopsAfterDone ==
    /\ [][(done /\ rthread = "check") => rthread' # "read"]_vars
    /\ [][(done /\ rthread \in {"close", "finished", "died"})
             => rthread' \notin {"check", "read", "write"}]_vars
    /\ (done /\ rthread # "none") ~> FeederEnded
    /\ (pc = "close_join") ~> CloseReturned
    /\ (pc = "del_join") ~> (pc = "gone")

C17_Witness ==
    /\ CloseReturned
    /\ last.op = "close"
    /\ last.err = "none"
    /\ rthread = "finished"
    /\ fstate.up < DataLen
    /\ fstate.up > Len(fstate.fed)

\* The feeder threads started, and what the decompressor was given as stdin.
ThreadStarts == SelectSeq(events, LAMBDA e : e[1] = "thread")
DecoderStdin == SelectSeq(events, LAMBDA e : e[1] = "stdin")

\* The upstream of the decompressor has a file descriptor: every source but
\* a URL response without fileno.
UpstreamHasDescriptor == ~(inp.scheme = "http" /\ ~inp.fileno)

\* C18: a stream starts at most one feeder thread, and starts it exactly
\* when it spawns a decompressor whose upstream has no file descriptor; an
\* upstream with a descriptor is made the decompressor's stdin and there is
\* no feeder.  Only the feeder's write gives bytes to the decompressor's
\* stdin or closes it, and only the foreground's read() and seek() take
\* bytes from the decompressor's stdout.
C18_OneFeederIffNoDescriptor ==
    /\ [](/\ Len(ThreadStarts) <= 1
          /\ Len(ThreadStarts) = 1
                <=> (proc["decoder"] # "none" /\ ~UpstreamHasDescriptor)
          /\ rthread # "none" <=> Len(ThreadStarts) = 1
          /\ (proc["decoder"] # "none" /\ UpstreamHasDescriptor)
                => /\ DecoderStdin = <<<<"stdin", "fileno", "">>>>
                   /\ rthread = "none"
                   /\ fstate.fed = <<>>
          /\ (proc["decoder"] # "none" /\ ~UpstreamHasDescriptor)
                => DecoderStdin = <<<<"stdin", "PIPE", "">>>>)
    /\ [][fstate.fed' # fstate.fed => rthread = "write" /\ rthread' = "check"]_vars
    /\ [][stdin_closed' # stdin_closed
             => rthread = "close" /\ rthread' = "finished"]_vars
    /\ [][off' # off => pc \in {"ready", "seeking"} /\ rthread' = rthread]_vars

C18_Witness ==
    /\ Len(ThreadStarts) = 1
    /\ rthread = "finished"
    /\ Len(fstate.fed) = DataLen
    /\ off = DataLen

\* The exit status of the process has been reclaimed: wait() was called on
\* it and has returned.
Reaped(p) == proc[p] \in {"exit_ok", "exit_fail"}

\* C19: over any close() calls and the teardown by the interpreter, no
\* tracked child is sent kill() a second time, and once a teardown has
\* ended every tracked child has been terminated and its exit status
\* reclaimed.
C19_ChildrenReapedExactlyOnce ==
    /\ \A p \in Range(child_processes) : kills[p] <= 1
    /\ (TeardownEnded /\ kill_failed = "none")
          => \A p \in Range(child_processes) : kills[p] = 1 /\ Reaped(p)

\* A call that may move the position counter has ended: a read(), or a
\* seek() with emulation.  (last.from is the counter before the call.)
CounterCallReturned ==
    /\ pc = "ready"
    /\ \/ last.op = "read"
       \/ last.op = "seek" /\ Emulated

\* C20 as stated: over any read() and seek() calls the position counter
\* never decreases and never exceeds the number of bytes delivered to the
\* caller; with emulation active tell() returns the counter.
C20_PosNeverExceedsDelivered ==
    /\ CounterCallReturned => pos >= last.from
    /\ pos <= delivered
    /\ (f_objs # <<>> /\ Emulated) => Tell = pos

\* C20 as amended: the position counter never decreases, is never less
\* than the number of bytes delivered to the caller and never exceeds the
\* number of bytes taken from the active element, which are the bytes
\* delivered to the caller and the bytes an emulated seek has read and
\* discarded; without emulation it is the number of bytes delivered.  With
\* emulation active it is, between calls, exactly the number of bytes taken
\* from the active element, and tell() returns it.
C20_PosCountsConsumedBytes ==
    /\ CounterCallReturned => pos >= last.from
    /\ f_objs # <<>>
          => /\ delivered <= pos
             /\ ~Emulated => pos = delivered
             /\ Emulated => /\ pos <= off
                            /\ pc # "seeking" => pos = off
                            /\ Tell = pos

C20_Witness ==
    /\ pc = "ready"
    /\ Emulated
    /\ last.op = "read"
    /\ last.buf[2] > 0
    /\ delivered > 0
    /\ pos > delivered

\* C21: an emulated seek() called with an unrecognized whence or with a
\* target below the current position raises and changes nothing: the
\* position counter keeps the value it had, no byte is consumed from the
\* active source, and the read() that follows starts at the offset the
\* source was at before the seek, as it would have without the seek.
C21_RejectedSeekChangesNothing ==
    /\ (pc = "ready" /\ BadSeekCall)
       => /\ last.err = IF ~last.known
                        THEN "Error: whence"
                        ELSE "Error: only seeking forward"
          /\ pos = last.from
          /\ off = last.at
    /\ (pc = "ready" /\ last.op = "read" /\ last.after = -2)
       => /\ last.buf[1] = last.at
          /\ pos = last.from + last.buf[2]

C21_Witness ==
    /\ pc = "ready"
    /\ last.op = "read"
    /\ last.after = -2
    /\ last.at > 0
    /\ last.buf[2] > 0

\* The chain holds no element twice.
ChainDistinct == \A i, j \in 1..Len(f_objs) : f_objs[i] = f_objs[j] => i = j

\* The decoder spawns and the stdin hand-overs of the constructor.
DecoderSpawns ==
    SelectSeq(events, LAMBDA e : e[1] = "spawn" /\ e[2] = "decoder")
StdinHandovers == SelectSeq(events, LAMBDA e : e[1] = "stdin")

\* C22: once construction has completed, every source that was opened is
\* an element of the chain and every process that was spawned is either a
\* finished SSH probe or in the tracked list, so close() reaches all of
\* them: each successful network open of the URL put its response in the
\* chain, each element was produced once (one open or one decoder spawn)
\* and each element but the last is the input of the one decoder after it.
C22_ConstructedStreamOwnsEverything ==
    pc = "ready"
    => /\ opened \subseteq Range(f_objs)
       /\ Range(f_objs) \subseteq opened
       /\ ChainDistinct
       /\ \A p \in {"probe1", "probe2"} : proc[p] \in {"none", "exit_ok"}
       /\ \A p \in {"fetch", "decoder"} :
             proc[p] # "none" <=> p \in Range(child_processes)
       /\ Len(f_objs) \in {1, 2}
       /\ Len(DecoderSpawns) = Len(f_objs) - 1
       /\ Len(StdinHandovers) = Len(f_objs) - 1
       /\ Len(f_objs) = 2 => f_objs[2] = "decout"

====
